---- MODULE Spec2Model ----
(***************************************************************************)
(* A model of src/main.py: the POST /make-notes request handler (shared    *)
(* secret, upload limits, text extraction, completion call, rendering,     *)
(* packaging) and the two markdown renderers.                              *)
(*                                                                         *)
(* Conventions.  A Python str is a sequence of one-character strings       *)
(* (<<"a", ".", "t", "x", "t">>); a character outside ASCII is one atom    *)
(* such as "U+00E9".  A bytes value read from an upload is the record      *)
(* [body, fill]: the byte sequence body followed by fill copies of the     *)
(* byte 0x78 ("x"), so that uploads of tens of megabytes keep their exact  *)
(* length; a decoded text is [chars, fill] in the same way.                *)
(*                                                                         *)
(* src/main.py line 155 holds an unmatched ")" inside call_ai_make_notes;  *)
(* the model follows the statements of that function as they are written.  *)
(***************************************************************************)
EXTENDS Integers, Sequences, FiniteSets, TLC

VARIABLES
    BACKEND_SHARED_SECRET, \* the environment value SHARED_SECRET is read from
    header,                \* the request's X-Backend-Secret header
    files,                 \* the request's uploads, in order
    pc,                    \* position of the handler
    idx,                   \* index of the loop the handler is in
    files_bytes,           \* make_notes: files_bytes
    extracted_blocks,      \* make_notes: extracted_blocks
    source_text,           \* the argument of call_ai_make_notes
    notes_md,              \* the markdown call_ai_make_notes returned
    docx_bytes,            \* the elements markdown_to_docx added
    pdf_bytes,             \* the drawString calls of markdown_to_pdf
    calls,                 \* how often each callee ran in this request
    response,              \* the HTTP response, status 0 while there is none
    canvas,                \* markdown_to_pdf: page and cursor y
    last_draw,             \* markdown_to_pdf: the latest line handled
    completion             \* what the completion service answered

vars == <<BACKEND_SHARED_SECRET, header, files, pc, idx, files_bytes,
          extracted_blocks, source_text, notes_md, docx_bytes, pdf_bytes,
          calls, response, canvas, last_draw, completion>>

(***************************************************************************)
(* Bounds of the model.                                                    *)
(***************************************************************************)
MaxUpload == 4      \* most uploads in one request
MaxBody == 3        \* most bytes in an enumerated plain-text body
MaxMdLen == 5       \* most characters in an enumerated markdown string
MaxPages == 2       \* pages markdown_to_pdf is followed through

(***************************************************************************)
(* Python's str methods, on sequences of characters.                       *)
(***************************************************************************)
WHITESPACE == {" ", "\t", "\n", "\r", "\f"}

RECURSIVE lstrip(_)
lstrip(s) ==
    IF s # <<>> /\ Head(s) \in WHITESPACE THEN lstrip(Tail(s)) ELSE s

RECURSIVE rstrip(_)
rstrip(s) ==
    IF s # <<>> /\ s[Len(s)] \in WHITESPACE
    THEN rstrip(SubSeq(s, 1, Len(s) - 1))
    ELSE s

strip(s) == rstrip(lstrip(s))

startswith(s, p) == Len(s) >= Len(p) /\ SubSeq(s, 1, Len(p)) = p

endswith(s, p) == Len(s) >= Len(p) /\ SubSeq(s, Len(s) - Len(p) + 1, Len(s)) = p

LOWERCASE == <<"a", "b", "c", "d", "e", "f", "g", "h", "i", "j", "k", "l", "m",
               "n", "o", "p", "q", "r", "s", "t", "u", "v", "w", "x", "y", "z">>

UPPERCASE == <<"A", "B", "C", "D", "E", "F", "G", "H", "I", "J", "K", "L", "M",
               "N", "O", "P", "Q", "R", "S", "T", "U", "V", "W", "X", "Y", "Z">>

DIGITS == {"0", "1", "2", "3", "4", "5", "6", "7", "8", "9"}

lower(s) ==
    [i \in 1..Len(s) |->
        IF \E k \in 1..26 : UPPERCASE[k] = s[i]
        THEN LOWERCASE[CHOOSE k \in 1..26 : UPPERCASE[k] = s[i]]
        ELSE s[i]]

Rep(c, n) == [i \in 1..n |-> c]

(***************************************************************************)
(* Configuration (lines 39-45).  MAX_FILES is the deployment's value of    *)
(* the MAX_FILES environment variable; the two size ceilings are the       *)
(* defaults, in bytes.                                                     *)
(***************************************************************************)
MAX_FILES == 3
MAX_MB_PER_FILE == 25
MAX_TOTAL_MB == 50
MB == 1048576

SHARED_SECRET == strip(BACKEND_SHARED_SECRET)

(***************************************************************************)
(* _require_secret: TRUE when it raises the 401.                           *)
(***************************************************************************)
require_secret_raises_never(hdr) == FALSE

require_secret_raises(hdr) ==
    LET got == IF hdr.present THEN hdr.value ELSE <<>>
    IN  SHARED_SECRET # <<>> /\ got # SHARED_SECRET

(***************************************************************************)
(* _bytes_limit_check and _read_uploadfile.                                *)
(***************************************************************************)
len(data) == Len(data.body) + data.fill

RECURSIVE sum_len(_)
sum_len(fb) == IF fb = <<>> THEN 0 ELSE len(Head(fb).data) + sum_len(Tail(fb))

bytes_limit_check_raises(fb) == sum_len(fb) > MAX_TOTAL_MB * MB

read_uploadfile_never(u) == FALSE

read_uploadfile_raises(u) == len(u.data) > MAX_MB_PER_FILE * MB

(***************************************************************************)
(* _safe_filename.                                                         *)
(***************************************************************************)
SAFE_CHARS ==
    {LOWERCASE[k] : k \in 1..26} \cup {UPPERCASE[k] : k \in 1..26}
        \cup DIGITS \cup {".", "_", "-"}

\* re.sub(r"[^a-zA-Z0-9._-]+", "_", s): every maximal run of characters outside
\* the class becomes one "_".
NotDropped(c) == c # ""

re_sub_unsafe(s) ==
    SelectSeq([i \in 1..Len(s) |->
                  IF s[i] \in SAFE_CHARS THEN s[i]
                  ELSE IF i = 1 \/ s[i - 1] \in SAFE_CHARS THEN "_"
                  ELSE ""],
              NotDropped)

NAME_LIMIT == 120

safe_filename(name) ==
    LET n0 == IF name = <<>> THEN <<"f", "i", "l", "e">> ELSE name
        n1 == re_sub_unsafe(n0)
    IN  SubSeq(n1, 1, IF Len(n1) < NAME_LIMIT THEN Len(n1) ELSE NAME_LIMIT)

(***************************************************************************)
(* extract_text.  The PDF, DOCX and PPTX parsers are third-party: lib is   *)
(* what the parser does with the bytes ("missing": the optional import     *)
(* failed, "error": it raised, "text": it returned the stripped text).     *)
(* A result is [ok, status, kind, detail, text].                           *)
(***************************************************************************)
Chr(b) ==
    CASE b = 32 -> " "
      [] b = 10 -> "\n"
      [] b = 97 -> "a"
      [] b = 120 -> "x"
      [] b = 233 -> "U+00E9"
      [] OTHER -> "?"

RECURSIVE decode_utf8_ignore(_)
decode_utf8_ignore(b) ==
    IF b = <<>> THEN <<>>
    ELSE IF b[1] < 128
         THEN <<Chr(b[1])>> \o decode_utf8_ignore(Tail(b))
    ELSE IF b[1] \in 194..223 /\ Len(b) >= 2 /\ b[2] \in 128..191
         THEN <<Chr((b[1] - 192) * 64 + (b[2] - 128))>>
                  \o decode_utf8_ignore(SubSeq(b, 3, Len(b)))
    ELSE decode_utf8_ignore(Tail(b))

decode_no_strip(data) ==
    [chars |-> decode_utf8_ignore(data.body), fill |-> data.fill]

decode_strip(data) ==
    LET l == lstrip(decode_utf8_ignore(data.body))
    IN  IF data.fill > 0
        THEN [chars |-> l, fill |-> data.fill]
        ELSE [chars |-> rstrip(l), fill |-> 0]

NoText == [chars |-> <<>>, fill |-> 0]

Raise(status, detail) ==
    [ok |-> FALSE, status |-> status, kind |-> "json", detail |-> detail,
     text |-> NoText]

Unhandled ==
    [ok |-> FALSE, status |-> 500, kind |-> "text",
     detail |-> <<"Internal Server Error">>, text |-> NoText]

Return(text) ==
    [ok |-> TRUE, status |-> 0, kind |-> "none", detail |-> <<>>, text |-> text]

extract_text_from_pdf(lib) ==
    CASE lib.kind = "missing" -> Raise(500, <<"PDF support missing">>)
      [] lib.kind = "error" -> Unhandled
      [] OTHER -> Return(lib.text)

extract_text_from_docx(lib) ==
    CASE lib.kind = "text" -> Return(lib.text)
      [] OTHER -> Unhandled

extract_text_from_pptx(lib) ==
    CASE lib.kind = "missing" -> Raise(500, <<"PPTX support missing">>)
      [] lib.kind = "error" -> Unhandled
      [] OTHER -> Return(lib.text)

extract_text_accepts_unknown(filename, data, lib) == Return(decode_strip(data))

extract_text(filename, data, lib) ==
    LET fn == lower(filename)
    IN  CASE endswith(fn, <<".", "p", "d", "f">>) -> extract_text_from_pdf(lib)
          [] endswith(fn, <<".", "d", "o", "c", "x">>) -> extract_text_from_docx(lib)
          [] endswith(fn, <<".", "p", "p", "t", "x">>) -> extract_text_from_pptx(lib)
          [] endswith(fn, <<".", "t", "x", "t">>) \/ endswith(fn, <<".", "m", "d">>) ->
                Return(decode_strip(data))
          [] OTHER -> Raise(400, <<"Unsupported file type", filename>>)

PLACEHOLDER ==
    [chars |-> <<"N", "o", " ", "e", "x", "t", "r", "a", "c", "t", "a", "b", "l",
                 "e", " ", "t", "e", "x", "t", " ", "f", "o", "u", "n", "d", ".">>,
     fill |-> 0]

Block(fname, text) ==
    [header |-> <<"=", "=", "=", " ", "F", "i", "l", "e", ":", " ">> \o fname
                    \o <<" ", "=", "=", "=">>,
     text |-> IF text = NoText THEN PLACEHOLDER ELSE text]

(***************************************************************************)
(* call_ai_make_notes.  key: whether OPENAI_API_KEY is set when the call   *)
(* is made; reply: what client.chat.completions.create does ("error": it   *)
(* raised, "none": message.content is None, "content": a string).          *)
(***************************************************************************)
ai_out(reply) == IF reply.kind = "content" THEN strip(reply.content) ELSE <<>>

ai_empty_check_never(out) == FALSE

ai_empty_check(out) == out = <<>>

(***************************************************************************)
(* str.splitlines and the numbered-item pattern ^\d+\.\s+ .                *)
(***************************************************************************)
LINE_BREAKS == {"\n", "\r", "\f"}

RECURSIVE split_from(_, _)
split_from(s, cur) ==
    IF s = <<>> THEN (IF cur = <<>> THEN <<>> ELSE <<cur>>)
    ELSE IF Head(s) \in LINE_BREAKS
         THEN LET rest == IF Head(s) = "\r" /\ Len(s) >= 2 /\ s[2] = "\n"
                          THEN SubSeq(s, 3, Len(s))
                          ELSE Tail(s)
              IN  <<cur>> \o split_from(rest, <<>>)
         ELSE split_from(Tail(s), Append(cur, Head(s)))

splitlines(s) == split_from(s, <<>>)

RECURSIVE lstrip_chars(_, _)
lstrip_chars(s, set) ==
    IF s # <<>> /\ Head(s) \in set THEN lstrip_chars(Tail(s), set) ELSE s

re_match_numbered(s) ==
    LET after == lstrip_chars(s, DIGITS)
    IN  /\ Len(after) < Len(s)
        /\ Len(after) >= 2
        /\ after[1] = "."
        /\ after[2] \in WHITESPACE

re_sub_numbered(s) ==
    IF re_match_numbered(s) THEN lstrip(Tail(lstrip_chars(s, DIGITS))) ELSE s

(***************************************************************************)
(* markdown_to_docx.  The document is the sequence of elements added, each *)
(* [style, text]; docx_line is one iteration of the loop over the lines.   *)
(***************************************************************************)
El(style, text) == [style |-> style, text |-> text]

docx_line_keep_blank(raw) == <<El("Normal", strip(raw))>>

docx_line_loose_heading(raw) ==
    LET line == rstrip(raw)
    IN  IF strip(line) = <<>> THEN <<>>
        ELSE IF startswith(line, <<"#", "#", "#">>)
             THEN <<El("Heading 3", strip(SubSeq(line, 4, Len(line))))>>
        ELSE IF startswith(line, <<"#", "#">>)
             THEN <<El("Heading 2", strip(SubSeq(line, 3, Len(line))))>>
        ELSE IF startswith(line, <<"#">>)
             THEN <<El("Heading 1", strip(SubSeq(line, 2, Len(line))))>>
        ELSE IF startswith(lstrip(line), <<"-">>) \/ startswith(lstrip(line), <<"*">>)
             THEN <<El("List Bullet", strip(Tail(lstrip(line))))>>
        ELSE IF re_match_numbered(strip(line))
             THEN <<El("List Number", re_sub_numbered(strip(line)))>>
        ELSE <<El("Normal", strip(line))>>

docx_line(raw) ==
    LET line == rstrip(raw)
    IN  IF strip(line) = <<>> THEN <<>>
        ELSE IF startswith(line, <<"#", "#", "#", " ">>)
             THEN <<El("Heading 3", strip(SubSeq(line, 5, Len(line))))>>
        ELSE IF startswith(line, <<"#", "#", " ">>)
             THEN <<El("Heading 2", strip(SubSeq(line, 4, Len(line))))>>
        ELSE IF startswith(line, <<"#", " ">>)
             THEN <<El("Heading 1", strip(SubSeq(line, 3, Len(line))))>>
        ELSE IF startswith(lstrip(line), <<"-">>) \/ startswith(lstrip(line), <<"*">>)
             THEN <<El("List Bullet", strip(Tail(lstrip(line))))>>
        ELSE IF re_match_numbered(strip(line))
             THEN <<El("List Number", re_sub_numbered(strip(line)))>>
        ELSE <<El("Normal", strip(line))>>

RECURSIVE docx_lines(_)
docx_lines(lines) ==
    IF lines = <<>> THEN <<>> ELSE docx_line(Head(lines)) \o docx_lines(Tail(lines))

markdown_to_docx(md) == docx_lines(splitlines(md))

(***************************************************************************)
(* markdown_to_pdf.  Lengths are in units of 1/360 mm, in which a point    *)
(* (1/72 inch) is 127 units and a centimetre 3600, so that the comparison  *)
(* y < 2 * cm is exact.  The canvas is [page, y]; a drawString call is     *)
(* [page, y, text, font].                                                  *)
(***************************************************************************)
pt == 127
cm == 3600
A4_HEIGHT_MM == 297
height == A4_HEIGHT_MM * 360
line_height == 14 * pt
max_chars == 95

Min(a, b) == IF a < b THEN a ELSE b

chunks(text) ==
    IF text = <<>> THEN << <<>> >>
    ELSE [i \in 1..((Len(text) + max_chars - 1) \div max_chars) |->
            SubSeq(text, (i - 1) * max_chars + 1, Min(i * max_chars, Len(text)))]

new_page_never(cv) == cv

new_page_if_low(cv) ==
    IF cv.y < 2 * cm THEN [page |-> cv.page + 1, y |-> height - 2 * cm] ELSE cv

RECURSIVE draw_chunks(_, _, _)
draw_chunks(cv, chs, font) ==
    IF chs = <<>> THEN [canvas |-> cv, draws |-> <<>>]
    ELSE LET c1 == new_page_if_low(cv)
             d == [page |-> c1.page, y |-> c1.y, text |-> Head(chs), font |-> font]
             rest == draw_chunks([page |-> c1.page, y |-> c1.y - line_height],
                                 Tail(chs), font)
         IN  [canvas |-> rest.canvas, draws |-> <<d>> \o rest.draws]

draw_line(cv, text, is_heading) ==
    LET c0 == new_page_if_low(cv)
        font == IF is_heading THEN "Helvetica-Bold" ELSE "Helvetica"
        r == draw_chunks(c0, chunks(text), font)
    IN  [canvas |-> [page |-> r.canvas.page, y |-> r.canvas.y - 4 * pt],
         draws |-> r.draws]

BULLET == "U+2022"

\* One iteration of the loop over the lines: the arguments of its draw_line
\* call, or nothing for a blank line.
pdf_line(raw) ==
    LET line == strip(raw)
    IN  IF line = <<>> THEN <<>>
        ELSE IF startswith(line, <<"#">>)
             THEN <<[text |-> strip(lstrip_chars(line, {"#"})), is_heading |-> TRUE]>>
        ELSE IF startswith(line, <<"-">>) \/ startswith(line, <<"*">>)
             THEN <<[text |-> <<BULLET, " ">> \o strip(Tail(line)),
                     is_heading |-> FALSE]>>
        ELSE <<[text |-> line, is_heading |-> FALSE]>>

pdf_step(cv, raw) ==
    LET a == pdf_line(raw)
    IN  IF a = <<>> THEN [canvas |-> cv, draws |-> <<>>]
        ELSE draw_line(cv, a[1].text, a[1].is_heading)

FirstPage == [page |-> 1, y |-> height - 2 * cm]

RECURSIVE pdf_lines(_, _)
pdf_lines(cv, lines) ==
    IF lines = <<>> THEN <<>>
    ELSE LET r == pdf_step(cv, Head(lines))
         IN  r.draws \o pdf_lines(r.canvas, Tail(lines))

markdown_to_pdf(md) == pdf_lines(FirstPage, splitlines(md))

build_zip(docx, pdf) ==
    <<[name |-> "notes.docx", data |-> docx], [name |-> "notes.pdf", data |-> pdf]>>

(***************************************************************************)
(* The inputs: environment, header, uploads, parser and completion-service *)
(* behaviour.                                                              *)
(***************************************************************************)
RECURSIVE SeqsUpTo(_, _)
SeqsUpTo(S, n) ==
    IF n = 0 THEN {<<>>}
    ELSE LET shorter == SeqsUpTo(S, n - 1)
         IN  shorter \cup {Append(q, x) : q \in {r \in shorter : Len(r) = n - 1}, x \in S}

ENV_VALUES == {<<>>, <<" ">>, <<"k", " ">>}

HEADERS ==
    {[present |-> FALSE, value |-> <<>>],
     [present |-> TRUE, value |-> <<"k">>],
     [present |-> TRUE, value |-> <<"x">>]}

Small(body) == [body |-> body, fill |-> 0]

LONG_TXT == Rep("a", NAME_LIMIT - 4) \o <<".", "t", "x", "t", "z", "z">>

UPLOADS ==
    {[filename |-> <<"x", ".", "e", "x", "e">>, data |-> Small(<<97>>)],
     [filename |-> <<"n", " ", "1", ".", "P", "D", "F">>, data |-> Small(<<97>>)],
     [filename |-> <<"b", ".", "m", "d">>,
      data |-> [body |-> <<>>, fill |-> MAX_MB_PER_FILE * MB]],
     [filename |-> <<"o", ".", "t", "x", "t">>,
      data |-> [body |-> <<32>>, fill |-> MAX_MB_PER_FILE * MB]],
     [filename |-> LONG_TXT, data |-> Small(<<97>>)]}

BYTE_VALUES == {32, 97, 195, 169}

TEXT_NAMES == {<<"a", ".", "t", "x", "t">>}

TEXT_UPLOADS ==
    {[filename |-> n, data |-> Small(b)] :
        n \in TEXT_NAMES, b \in SeqsUpTo(BYTE_VALUES, MaxBody)}

REQUESTS == SeqsUpTo(UPLOADS, MaxUpload) \cup {<<u>> : u \in TEXT_UPLOADS}

LIBS ==
    {[kind |-> "missing", text |-> NoText],
     [kind |-> "error", text |-> NoText],
     [kind |-> "text", text |-> NoText],
     [kind |-> "text", text |-> [chars |-> <<"t">>, fill |-> 0]]}

MD_EXAMPLE ==
    <<"#", "#", " ", "T", "i", "t", "l", "e", "\n",
      "-", " ", "i", "t", "e", "m", " ", "o", "n", "e", "\n",
      "1", ".", " ", "s", "t", "e", "p", " ", "o", "n", "e", "\n",
      "p", "l", "a", "i", "n", " ", "l", "i", "n", "e">>

REPLIES ==
    {[kind |-> "error", content |-> <<>>], [kind |-> "none", content |-> <<>>]}
        \cup {[kind |-> "content", content |-> c] :
                c \in {<<>>, <<" ", "\n">>, <<"#", "a", "\n">>, MD_EXAMPLE}}

(***************************************************************************)
(* make_notes, one action per statement group, and the exception handler.  *)
(***************************************************************************)
NoReply == [kind |-> "unasked", content |-> <<>>]

NoResponse == [status |-> 0, kind |-> "none", detail |-> <<>>]

NoCalls == [read |-> 0, extract |-> 0, ai |-> 0, docx |-> 0, pdf |-> 0, zip |-> 0]

\* http_exception_handler: an HTTPException becomes a JSON error body.
http_exception_handler(status, detail) ==
    [status |-> status, kind |-> "json", detail |-> detail]

Fail(r) ==
    /\ pc' = "done"
    /\ response' = IF r.kind = "json"
                   THEN http_exception_handler(r.status, r.detail)
                   ELSE [status |-> r.status, kind |-> r.kind, detail |-> r.detail]

Init ==
    /\ BACKEND_SHARED_SECRET \in ENV_VALUES
    /\ header \in HEADERS
    /\ files \in REQUESTS
    /\ pc = "require_secret"
    /\ idx = 1
    /\ files_bytes = <<>>
    /\ extracted_blocks = <<>>
    /\ source_text = <<>>
    /\ notes_md = <<>>
    /\ docx_bytes = <<>>
    /\ pdf_bytes = <<>>
    /\ calls = NoCalls
    /\ response = NoResponse
    /\ canvas = FirstPage
    /\ last_draw = [raw |-> <<>>, draws |-> <<>>]
    /\ completion = NoReply

RequireSecret ==
    /\ pc = "require_secret"
    /\ IF require_secret_raises(header)
       THEN Fail(Raise(401, <<"Unauthorized">>))
       ELSE pc' = "count" /\ response' = response
    /\ UNCHANGED <<BACKEND_SHARED_SECRET, header, files, idx, files_bytes,
                   extracted_blocks, source_text, notes_md, docx_bytes, pdf_bytes,
                   calls, canvas, last_draw, completion>>

count_check_off_by_one(fs) ==
    IF Len(fs) = 0 THEN Raise(400, <<"No files uploaded">>)
    ELSE IF Len(fs) > MAX_FILES + 1 THEN Raise(400, <<"Too many files">>)
    ELSE Return(NoText)

count_check(fs) ==
    IF Len(fs) = 0 THEN Raise(400, <<"No files uploaded">>)
    ELSE IF Len(fs) > MAX_FILES THEN Raise(400, <<"Too many files">>)
    ELSE Return(NoText)

CountCheck ==
    /\ pc = "count"
    /\ IF count_check(files).ok
       THEN pc' = "read" /\ response' = response
       ELSE Fail(count_check(files))
    /\ UNCHANGED <<BACKEND_SHARED_SECRET, header, files, idx, files_bytes,
                   extracted_blocks, source_text, notes_md, docx_bytes, pdf_bytes,
                   calls, canvas, last_draw, completion>>

ReadUploadFile ==
    /\ pc = "read"
    /\ LET u == files[idx]
           fname == safe_filename(u.filename)
       IN  /\ calls' = [calls EXCEPT !.read = @ + 1]
           /\ IF read_uploadfile_raises(u)
              THEN /\ Fail(Raise(413, <<"too large", u.filename>>))
                   /\ UNCHANGED <<idx, files_bytes>>
              ELSE /\ files_bytes' = Append(files_bytes, [fname |-> fname, data |-> u.data])
                   /\ idx' = idx + 1
                   /\ pc' = IF idx = Len(files) THEN "limit" ELSE "read"
                   /\ response' = response
    /\ UNCHANGED <<BACKEND_SHARED_SECRET, header, files, extracted_blocks,
                   source_text, notes_md, docx_bytes, pdf_bytes, canvas, last_draw, completion>>

BytesLimitCheck ==
    /\ pc = "limit"
    /\ IF bytes_limit_check_raises(files_bytes)
       THEN Fail(Raise(413, <<"Total upload too large">>)) /\ idx' = idx
       ELSE pc' = "extract" /\ idx' = 1 /\ response' = response
    /\ UNCHANGED <<BACKEND_SHARED_SECRET, header, files, files_bytes,
                   extracted_blocks, source_text, notes_md, docx_bytes, pdf_bytes,
                   calls, canvas, last_draw, completion>>

ExtractText ==
    /\ pc = "extract"
    /\ \E lib \in LIBS :
        LET fb == files_bytes[idx]
            r == extract_text(fb.fname, fb.data, lib)
        IN  /\ calls' = [calls EXCEPT !.extract = @ + 1]
            /\ IF r.ok
               THEN /\ extracted_blocks' = Append(extracted_blocks, Block(fb.fname, r.text))
                    /\ idx' = idx + 1
                    /\ pc' = IF idx = Len(files_bytes) THEN "ai" ELSE "extract"
                    /\ response' = response
               ELSE /\ Fail(r)
                    /\ UNCHANGED <<idx, extracted_blocks>>
    /\ UNCHANGED <<BACKEND_SHARED_SECRET, header, files, files_bytes, source_text,
                   notes_md, docx_bytes, pdf_bytes, canvas, last_draw, completion>>

CallAiMakeNotes ==
    /\ pc = "ai"
    /\ source_text' = extracted_blocks
    /\ \E key \in BOOLEAN, reply \in REPLIES :
        IF ~key
        THEN /\ Fail(Raise(500, <<"OPENAI_API_KEY not set">>))
             /\ UNCHANGED <<calls, notes_md, completion>>
        ELSE /\ calls' = [calls EXCEPT !.ai = @ + 1]
             /\ completion' = reply
             /\ IF reply.kind = "error"
                THEN Fail(Unhandled) /\ notes_md' = notes_md
                ELSE IF ai_empty_check(ai_out(reply))
                THEN Fail(Raise(500, <<"AI returned empty notes">>)) /\ notes_md' = notes_md
                ELSE pc' = "docx" /\ notes_md' = ai_out(reply) /\ response' = response
    /\ UNCHANGED <<BACKEND_SHARED_SECRET, header, files, idx, files_bytes,
                   extracted_blocks, docx_bytes, pdf_bytes, canvas, last_draw>>

MarkdownToDocx ==
    /\ pc = "docx"
    /\ docx_bytes' = markdown_to_docx(notes_md)
    /\ calls' = [calls EXCEPT !.docx = @ + 1]
    /\ pc' = "pdf"
    /\ UNCHANGED <<BACKEND_SHARED_SECRET, header, files, idx, files_bytes,
                   extracted_blocks, source_text, notes_md, pdf_bytes, response,
                   canvas, last_draw, completion>>

MarkdownToPdf ==
    /\ pc = "pdf"
    /\ pdf_bytes' = markdown_to_pdf(notes_md)
    /\ calls' = [calls EXCEPT !.pdf = @ + 1]
    /\ pc' = "zip"
    /\ UNCHANGED <<BACKEND_SHARED_SECRET, header, files, idx, files_bytes,
                   extracted_blocks, source_text, notes_md, docx_bytes, response,
                   canvas, last_draw, completion>>

BuildZip ==
    /\ pc = "zip"
    /\ calls' = [calls EXCEPT !.zip = @ + 1]
    /\ response' = [status |-> 200, kind |-> "zip",
                    detail |-> build_zip(docx_bytes, pdf_bytes)]
    /\ pc' = "done"
    /\ UNCHANGED <<BACKEND_SHARED_SECRET, header, files, idx, files_bytes,
                   extracted_blocks, source_text, notes_md, docx_bytes, pdf_bytes,
                   canvas, last_draw, completion>>

Next ==
    \/ RequireSecret
    \/ CountCheck
    \/ ReadUploadFile
    \/ BytesLimitCheck
    \/ ExtractText
    \/ CallAiMakeNotes
    \/ MarkdownToDocx
    \/ MarkdownToPdf
    \/ BuildZip

Spec == Init /\ [][Next]_vars

(***************************************************************************)
(* The renderers on their own: the handler from the point where            *)
(* call_ai_make_notes has returned the markdown md, for every md of a      *)
(* bounded set (what it returns is stripped and not empty).                *)
(***************************************************************************)
MD_CHARS == {"#", " ", "-", "1", ".", "a", "\n"}

MD_EXTRA ==
    {MD_EXAMPLE,
     <<"#", "#", "#", "#", " ", "a">>,
     <<"*", "*", "a", "*", "*">>,
     <<"a", "\n", "\t", "*", " ", "a">>,
     <<"1", "2", ".", "\t", "a", "\r", "\n", "\r", "\n", "1", ".", "a">>}

MD_INPUTS ==
    ({strip(m) : m \in SeqsUpTo(MD_CHARS, MaxMdLen)} \cup MD_EXTRA) \ {<<>>}

ONE_UPLOAD == [filename |-> <<"a", ".", "t", "x", "t">>, data |-> Small(<<97>>)]

AfterCompletion(md) ==
    /\ BACKEND_SHARED_SECRET = <<>>
    /\ header = [present |-> FALSE, value |-> <<>>]
    /\ files = <<ONE_UPLOAD>>
    /\ idx = 2
    /\ files_bytes = <<[fname |-> ONE_UPLOAD.filename, data |-> ONE_UPLOAD.data]>>
    /\ extracted_blocks = <<Block(ONE_UPLOAD.filename, decode_strip(ONE_UPLOAD.data))>>
    /\ source_text = extracted_blocks
    /\ notes_md = md
    /\ completion = [kind |-> "content", content |-> md]
    /\ response = NoResponse

InitMd ==
    /\ \E md \in MD_INPUTS : AfterCompletion(md)
    /\ pc = "docx"
    /\ docx_bytes = <<>>
    /\ pdf_bytes = <<>>
    /\ calls = [NoCalls EXCEPT !.read = 1, !.extract = 1, !.ai = 1]
    /\ canvas = FirstPage
    /\ last_draw = [raw |-> <<>>, draws |-> <<>>]

NextMd == MarkdownToDocx \/ MarkdownToPdf \/ BuildZip

SpecMd == InitMd /\ [][NextMd]_vars

(***************************************************************************)
(* markdown_to_pdf's loop, one line per step, the lines of md supplied one *)
(* by one from a pool that holds blank, short, heading, bullet and         *)
(* several-chunk lines; followed through MaxPages pages.                   *)
(***************************************************************************)
PDF_LINES ==
    {<<" ">>, <<"a">>, <<"#">>, <<"#", " ", "T">>, <<"-", " ", "b">>,
     Rep("a", max_chars + 1), Rep("a", 3 * max_chars)}

InitPdf ==
    /\ AfterCompletion(<<"a">>)
    /\ pc = "pdf"
    /\ docx_bytes = markdown_to_docx(<<"a">>)
    /\ pdf_bytes = <<>>
    /\ calls = [NoCalls EXCEPT !.read = 1, !.extract = 1, !.ai = 1, !.docx = 1]
    /\ canvas = FirstPage
    /\ last_draw = [raw |-> <<>>, draws |-> <<>>]

PdfLine ==
    /\ pc = "pdf"
    /\ canvas.page <= MaxPages
    /\ \E raw \in PDF_LINES :
        LET r == pdf_step(canvas, raw)
        IN  /\ canvas' = r.canvas
            /\ last_draw' = [raw |-> raw, draws |-> r.draws]
    /\ UNCHANGED <<BACKEND_SHARED_SECRET, header, files, pc, idx, files_bytes,
                   extracted_blocks, source_text, notes_md, docx_bytes, pdf_bytes,
                   calls, response, completion>>

NextPdf == PdfLine

SpecPdf == InitPdf /\ [][NextPdf]_vars

(***************************************************************************)
(* What the claims speak of, stated on the request itself.                 *)
(***************************************************************************)
Configured == \E i \in 1..Len(BACKEND_SHARED_SECRET) :
                  BACKEND_SHARED_SECRET[i] \notin WHITESPACE

HeaderMatches == header.present /\ header.value = strip(BACKEND_SHARED_SECRET)

PassesSecret == ~Configured \/ HeaderMatches

Oversized(u) == Len(u.data.body) + u.data.fill > 25 * 1024 * 1024

RECURSIVE TotalSize(_)
TotalSize(fs) ==
    IF fs = <<>> THEN 0
    ELSE Len(Head(fs).data.body) + Head(fs).data.fill + TotalSize(Tail(fs))

CountOk == Len(files) \in 1..MAX_FILES

SizesOk ==
    /\ \A i \in 1..Len(files) : ~Oversized(files[i])
    /\ TotalSize(files) <= 50 * 1024 * 1024

SUFFIXES ==
    {<<".", "p", "d", "f">>, <<".", "d", "o", "c", "x">>, <<".", "p", "p", "t", "x">>,
     <<".", "t", "x", "t">>, <<".", "m", "d">>}

Supported(name) == \E sfx \in SUFFIXES : endswith(lower(name), sfx)

PlainText(name) ==
    endswith(lower(name), <<".", "t", "x", "t">>) \/ endswith(lower(name), <<".", "m", "d">>)

Least(S) == CHOOSE i \in S : \A j \in S : i <= j

FirstUnsupported == Least({i \in 1..Len(files) : ~Supported(safe_filename(files[i].filename))})

FirstOversized == Least({i \in 1..Len(files) : Oversized(files[i])})

Done == pc = "done"

Failed(status, detail) ==
    Done /\ response = [status |-> status, kind |-> "json", detail |-> detail]

(***************************************************************************)
(* C1 as stated: a request that passes the secret, count and size checks   *)
(* and holds a file whose name ends in none of .pdf .docx .pptx .txt .md   *)
(* ends with the 400 "Unsupported file type" error naming such a file, and *)
(* the completion service is never called.                                 *)
(***************************************************************************)
C1_AsStated ==
    (PassesSecret /\ CountOk /\ SizesOk
        /\ \E i \in 1..Len(files) : ~Supported(files[i].filename))
    => /\ calls.ai = 0
       /\ Done =>
            \E i \in 1..Len(files) :
                /\ ~Supported(files[i].filename)
                /\ \/ Failed(400, <<"Unsupported file type", files[i].filename>>)
                   \/ Failed(400, <<"Unsupported file type",
                                    safe_filename(files[i].filename)>>)

(***************************************************************************)
(* C1, amended: in a request that passes the secret, count and size checks *)
(* and holds a file whose sanitized name (_safe_filename: unsafe runs      *)
(* replaced by "_", cut to 120 characters) ends in none of the five        *)
(* suffixes, the completion service is never called, and the request ends  *)
(* with the 400 "Unsupported file type" error naming the sanitized name of *)
(* the first such file unless the extraction of an earlier file failed     *)
(* first (then with that file's 500 error).                                *)
(***************************************************************************)
UnsupportedAt(i) == ~Supported(safe_filename(files[i].filename))

C1_UnsupportedType ==
    (PassesSecret /\ CountOk /\ SizesOk /\ \E i \in 1..Len(files) : UnsupportedAt(i))
    => /\ calls.ai = 0
       /\ Done =>
            LET k == FirstUnsupported
            IN  IF Len(extracted_blocks) = k - 1
                THEN Failed(400, <<"Unsupported file type",
                                   safe_filename(files[k].filename)>>)
                ELSE /\ Len(extracted_blocks) < k - 1
                     /\ response.status = 500
                     /\ ~PlainText(safe_filename(files[Len(extracted_blocks) + 1].filename))

C1_Witness ==
    /\ Len(files) = 2
    /\ PlainText(files[1].filename)
    /\ ~Supported(files[2].filename)
    /\ response.status = 400
    /\ response.detail = <<"Unsupported file type", <<"x", ".", "e", "x", "e">> >>
    /\ calls.extract = 2

(***************************************************************************)
(* C2 as stated: a request with more than MAX_FILES uploads ends with the  *)
(* "Too many files" error and _read_uploadfile never runs.                 *)
(***************************************************************************)
C2_AsStated ==
    Len(files) > MAX_FILES
    => calls.read = 0 /\ (Done => Failed(400, <<"Too many files">>))

(***************************************************************************)
(* C2, amended: in a request with more than MAX_FILES uploads              *)
(* _read_uploadfile never runs, and if the request passes the shared-      *)
(* secret check it ends with the "Too many files" error (otherwise the     *)
(* 401 comes first).                                                       *)
(***************************************************************************)
C2_TooManyFiles ==
    Len(files) > MAX_FILES
    => /\ calls.read = 0
       /\ (Done /\ PassesSecret) => Failed(400, <<"Too many files">>)
       /\ (Done /\ ~PassesSecret) => Failed(401, <<"Unauthorized">>)

C2_Witness ==
    Len(files) = MAX_FILES + 1 /\ Failed(400, <<"Too many files">>) /\ calls.read = 0

(***************************************************************************)
(* C3: with a non-empty secret configured, a request whose header is       *)
(* absent or differs is rejected with 401 before any file is read,         *)
(* extracted or sent to the completion service; with no secret configured  *)
(* no request is rejected with 401.                                        *)
(***************************************************************************)
C3_SecretGate ==
    /\ (Configured /\ ~HeaderMatches /\ pc # "require_secret")
        => Failed(401, <<"Unauthorized">>) /\ calls = NoCalls
    /\ ~Configured => response.status # 401

C3_Witness ==
    /\ Configured
    /\ header.present
    /\ ~HeaderMatches
    /\ Len(files) > 0
    /\ Failed(401, <<"Unauthorized">>)

(***************************************************************************)
(* C4 as stated: with 1..MAX_FILES uploads, an upload above the per-file   *)
(* ceiling ends the request with a 413 naming an oversized file; uploads   *)
(* each within the ceiling but above the aggregate ceiling in sum end it   *)
(* with the 413 "Total upload too large"; neither extracts nor calls the   *)
(* completion service.                                                     *)
(***************************************************************************)
OversizedAt(i) == Oversized(files[i])

C4_AsStated ==
    CountOk =>
        /\ (\E i \in 1..Len(files) : OversizedAt(i))
            => /\ calls.extract = 0 /\ calls.ai = 0
               /\ Done => \E i \in 1..Len(files) :
                            /\ OversizedAt(i)
                            /\ Failed(413, <<"too large", files[i].filename>>)
        /\ ((\A i \in 1..Len(files) : ~OversizedAt(i))
                /\ TotalSize(files) > 50 * 1024 * 1024)
            => /\ calls.extract = 0 /\ calls.ai = 0
               /\ Done => Failed(413, <<"Total upload too large">>)

(***************************************************************************)
(* C4, amended: the same for a request that passes the shared-secret       *)
(* check, the file named being the first oversized one in upload order; a  *)
(* request that does not pass ends with the 401.  In no case is a text     *)
(* extracted or the completion service called.                             *)
(***************************************************************************)
C4_SizeLimits ==
    CountOk =>
        /\ (\E i \in 1..Len(files) : OversizedAt(i))
            => /\ calls.extract = 0 /\ calls.ai = 0
               /\ (Done /\ PassesSecret)
                    => /\ Failed(413, <<"too large", files[FirstOversized].filename>>)
                       /\ calls.read = FirstOversized
               /\ (Done /\ ~PassesSecret) => Failed(401, <<"Unauthorized">>)
        /\ ((\A i \in 1..Len(files) : ~OversizedAt(i))
                /\ TotalSize(files) > 50 * 1024 * 1024)
            => /\ calls.extract = 0 /\ calls.ai = 0
               /\ (Done /\ PassesSecret)
                    => Failed(413, <<"Total upload too large">>) /\ calls.read = Len(files)
               /\ (Done /\ ~PassesSecret) => Failed(401, <<"Unauthorized">>)

C4_Witness ==
    /\ Len(files) = 3
    /\ \A i \in 1..3 : ~OversizedAt(i)
    /\ Failed(413, <<"Total upload too large">>)
    /\ calls.read = 3

(***************************************************************************)
(* C5 as stated: for a request of one plain-text (.txt, .md) upload within *)
(* the limits, the source text given to the completion service is exactly  *)
(* one labeled block whose text is the upload's UTF-8 decoded content.     *)
(***************************************************************************)
SinglePlainText ==
    /\ Len(files) = 1
    /\ PlainText(files[1].filename)
    /\ SizesOk
    /\ files[1].data.fill = 0

C5_AsStated ==
    (SinglePlainText /\ calls.ai = 1)
    => /\ Len(source_text) = 1
       /\ source_text[1].text.chars = decode_utf8_ignore(files[1].data.body)

(***************************************************************************)
(* C5, amended: ... exactly one block, labeled "=== File: <sanitized       *)
(* name> ===", whose text is the upload's content decoded as UTF-8 with    *)
(* undecodable bytes dropped and then trimmed of leading and trailing      *)
(* whitespace, or "No extractable text found." when nothing is left.       *)
(***************************************************************************)
C5_SingleTextBlock ==
    (SinglePlainText /\ calls.ai = 1)
    => LET trimmed == strip(decode_utf8_ignore(files[1].data.body))
       IN  /\ Len(source_text) = 1
           /\ source_text[1].header =
                <<"=", "=", "=", " ", "F", "i", "l", "e", ":", " ">>
                    \o safe_filename(files[1].filename) \o <<" ", "=", "=", "=">>
           /\ source_text[1].text.fill = 0
           /\ source_text[1].text.chars =
                IF trimmed = <<>> THEN PLACEHOLDER.chars ELSE trimmed

C5_Witness ==
    /\ SinglePlainText
    /\ calls.ai = 1
    /\ files[1].data.body = <<32, 195, 169>>
    /\ source_text[1].text.chars = <<"U+00E9">>

(***************************************************************************)
(* C6: when the completion service answers with an empty or whitespace-    *)
(* only content, the request ends with the JSON 500 "AI returned empty     *)
(* notes" error and none of markdown_to_docx, markdown_to_pdf, build_zip   *)
(* runs.                                                                   *)
(***************************************************************************)
EmptyAnswer ==
    /\ completion.kind \in {"none", "content"}
    /\ \A i \in 1..Len(completion.content) : completion.content[i] \in WHITESPACE

C6_EmptyNotes ==
    EmptyAnswer
    => /\ Failed(500, <<"AI returned empty notes">>)
       /\ calls.docx = 0 /\ calls.pdf = 0 /\ calls.zip = 0
       /\ docx_bytes = <<>> /\ pdf_bytes = <<>>

C6_Witness ==
    /\ completion = [kind |-> "content", content |-> <<" ", "\n">>]
    /\ Failed(500, <<"AI returned empty notes">>)
    /\ calls.ai = 1

(***************************************************************************)
(* What the renderer claims speak of.                                      *)
(***************************************************************************)
IsNonBlank(l) == \E i \in 1..Len(l) : l[i] \notin WHITESPACE

NonBlankLines == SelectSeq(splitlines(notes_md), IsNonBlank)

DocxDone == pc \in {"pdf", "zip", "done"} /\ calls.docx = 1

PdfDone == pc \in {"zip", "done"} /\ calls.pdf = 1

HEADINGS == {"Heading 1", "Heading 2", "Heading 3"}

Drop(l, n) == SubSeq(l, n + 1, Len(l))

FirstMark(l) == lstrip(l)[1]

\* t is what is left of l after a marker of digits, "." and whitespace.
IsNumbered(l, t) ==
    \E i \in 1..Len(l), j \in 1..Len(l) :
        /\ i + 2 <= j
        /\ \A k \in 1..i : l[k] \in DIGITS
        /\ l[i + 1] = "."
        /\ \A k \in (i + 2)..j : l[k] \in WHITESPACE
        /\ t = Drop(l, j)
        /\ (t = <<>> \/ t[1] \notin WHITESPACE)

(***************************************************************************)
(* C7 as stated: markdown_to_docx gives every non-blank line the style of  *)
(* the first matching rule: three leading "#" heading 3, two heading 2,    *)
(* one heading 1, a leading "-" or "*" after leading whitespace a bullet,  *)
(* digits "." whitespace a numbered item, otherwise a plain paragraph.     *)
(***************************************************************************)
StatedStyle(l) ==
    IF startswith(l, <<"#", "#", "#">>) THEN "Heading 3"
    ELSE IF startswith(l, <<"#", "#">>) THEN "Heading 2"
    ELSE IF startswith(l, <<"#">>) THEN "Heading 1"
    ELSE IF FirstMark(l) \in {"-", "*"} THEN "List Bullet"
    ELSE IF \E t \in {Drop(l, n) : n \in 0..Len(l)} : IsNumbered(strip(l), t)
         THEN "List Number"
    ELSE "Normal"

RuleHolds(raw, e) ==
    LET l == rstrip(raw)
    IN  IF startswith(l, <<"#", "#", "#", " ">>)
        THEN e = El("Heading 3", strip(Drop(l, 4)))
        ELSE IF startswith(l, <<"#", "#", " ">>)
        THEN e = El("Heading 2", strip(Drop(l, 3)))
        ELSE IF startswith(l, <<"#", " ">>)
        THEN e = El("Heading 1", strip(Drop(l, 2)))
        ELSE IF FirstMark(l) \in {"-", "*"}
        THEN e = El("List Bullet", strip(Drop(lstrip(l), 1)))
        ELSE IF IsNumbered(strip(l), e.text)
        THEN e.style = "List Number"
        ELSE e = El("Normal", strip(l))

C8_OneToOne ==
    DocxDone
    => /\ Len(docx_bytes) = Len(NonBlankLines)
       /\ \A k \in 1..Len(docx_bytes) :
            endswith(strip(NonBlankLines[k]), docx_bytes[k].text)
       /\ notes_md = MD_EXAMPLE
            => docx_bytes =
                <<El("Heading 2", <<"T", "i", "t", "l", "e">>),
                  El("List Bullet", <<"i", "t", "e", "m", " ", "o", "n", "e">>),
                  El("List Number", <<"s", "t", "e", "p", " ", "o", "n", "e">>),
                  El("Normal", <<"p", "l", "a", "i", "n", " ", "l", "i", "n", "e">>)>>

C8_Witness ==
    /\ DocxDone
    /\ notes_md = <<"a", "\n", "\n", "-", "a">>
    /\ docx_bytes = <<El("Normal", <<"a">>), El("List Bullet", <<"a">>)>>

(***************************************************************************)
(* C9 as stated: the two renderers read every line alike: a line is a      *)
(* heading for markdown_to_docx exactly when markdown_to_pdf draws it in   *)
(* the bold font, a bullet exactly when it is drawn with the bullet        *)
(* prefix, dropped as blank by both or neither, and headings and bullets   *)
(* carry the same text.  (Every line here is one chunk.)                   *)
(***************************************************************************)
C9_AsStated ==
    PdfDone
    => /\ Len(pdf_bytes) = Len(docx_bytes)
       /\ \A k \in 1..Len(docx_bytes) :
            LET e == docx_bytes[k]
                d == pdf_bytes[k]
            IN  /\ e.style \in HEADINGS <=> d.font = "Helvetica-Bold"
                /\ e.style = "List Bullet" <=> startswith(d.text, <<BULLET, " ">>)
                /\ e.style \in HEADINGS => d.text = e.text
                /\ e.style = "List Bullet" => d.text = <<BULLET, " ">> \o e.text

(***************************************************************************)
(* C10: markdown_to_pdf draws every chunk with the cursor between the      *)
(* bottom margin (2 cm) and the page height less 2 cm; the chunks of a     *)
(* line are its consecutive pieces of at most 95 characters; after a chunk *)
(* the cursor is one line height lower, or at the top of a new page when   *)
(* that would be below the bottom margin.                                  *)
(***************************************************************************)
Bottom == 20 * 360
Top == 277 * 360

RECURSIVE Concat(_)
Concat(ds) == IF ds = <<>> THEN <<>> ELSE Head(ds).text \o Concat(Tail(ds))

DrawnText(raw) ==
    LET l == strip(raw)
    IN  IF l[1] = "#" THEN strip(lstrip_chars(l, {"#"}))
        ELSE IF l[1] \in {"-", "*"} THEN <<BULLET, " ">> \o strip(Tail(l))
        ELSE l

C10_CursorInPage ==
    LET ds == last_draw.draws
    IN  /\ \A k \in 1..Len(ds) :
            /\ ds[k].y >= Bottom
            /\ ds[k].y <= Top
            /\ Len(ds[k].text) <= 95
            /\ k < Len(ds) => Len(ds[k].text) = 95
        /\ \A k \in 1..(Len(ds) - 1) :
            \/ ds[k + 1].page = ds[k].page /\ ds[k + 1].y = ds[k].y - 14 * 127
            \/ /\ ds[k].y - 14 * 127 < Bottom
               /\ ds[k + 1].page = ds[k].page + 1
               /\ ds[k + 1].y = Top
        /\ IsNonBlank(last_draw.raw)
            => Len(ds) >= 1 /\ Concat(ds) = DrawnText(last_draw.raw)
        /\ ~IsNonBlank(last_draw.raw) => ds = <<>>

C10_Witness ==
    LET ds == last_draw.draws
    IN  /\ Len(ds) = 3
        /\ \E k \in 1..2 :
            /\ ds[k].page = 1
            /\ ds[k].y - 14 * 127 < Bottom
            /\ ds[k + 1].page = 2
            /\ ds[k + 1].y = Top

====
